---- MODULE Spec2Model ----
(***************************************************************************)
(* Model of agent-control.py: the lease-and-execute life cycle of one job  *)
(* (allocate a node from the pool, run the phases on it, release it in the *)
(* finally block) under asynchronous SIGTERM/SIGHUP deliveries, and the    *)
(* administrative options --free-session, --free-all-nodes, --list-nodes.  *)
(*                                                                         *)
(* The job is one sequential process; pc is the statement it is about to   *)
(* execute (or the blocking call it is inside).  The pool service, the     *)
(* remote commands and the signal sender are the environment: their        *)
(* answers are drawn from small sets.                                      *)
(***************************************************************************)
EXTENDS Integers, Sequences, FiniteSets, TLC

\* ------------------------------------------------------------------ bounds

\* Number of SIGTERM/SIGHUP deliveries in one run.
MaxSignals == 2

\* ------------------------------------------------------- program constants

\* for timeout in [60, 300, 600, 1800, 3600]
Timeouts == <<60, 300, 600, 1800, 3600>>

\* for i in range(10)
ProbeCount == 10

\* signal.SIGTERM, signal.SIGHUP
SIGTERM == 15
SIGHUP == 1
Signals == {SIGTERM, SIGHUP}

\* A name that was never assigned, and Python's None.
UNBOUND == "<unbound>"
NONE == "<None>"

\* ------------------------------------------------------------ environment

\* Exit codes a remote command, a ping or an scp can end with.
RCs == {0, 1, 255}
ARCs == {0, 1}
PingRCs == {0, 1}

Hosts == {"host1", "host2"}
HostLists == {<<>>, <<"host1">>, <<"host2", "host1">>}
Ssids == {"", "abc"}

\* What requests.get(...).text of /Node/get can be: a body that is no JSON
\* ("text"), a JSON object with or without the "hosts" and "ssid" keys
\* ("json"), or no body at all because the request itself failed ("error").
\* The pool answers with a JSON object or with an error text; "hosts", when
\* present, is a list of host names and "ssid" a string.
TextBody ==
    [kind |-> "text", has_hosts |-> FALSE, hosts |-> <<>>,
     has_ssid |-> FALSE, ssid |-> ""]
RequestFailed ==
    [kind |-> "error", has_hosts |-> FALSE, hosts |-> <<>>,
     has_ssid |-> FALSE, ssid |-> ""]
JsonBodies ==
    {[kind |-> "json", has_hosts |-> hh, hosts |-> hs, has_ssid |-> hi, ssid |-> s] :
        hh \in BOOLEAN, hs \in HostLists, hi \in BOOLEAN, s \in Ssids}
Responses ==
    {TextBody, RequestFailed} \cup
    {r \in JsonBodies : (~r.has_hosts => r.hosts = <<>>) /\ (~r.has_ssid => r.ssid = "")}

\* jroot before its first assignment.
NoJroot ==
    [kind |-> "unbound", has_hosts |-> FALSE, hosts |-> <<>>,
     has_ssid |-> FALSE, ssid |-> ""]

\* Exceptions in flight.
NoExc == [type |-> "none", msg |-> "", got |-> 0, expected |-> 0]
Exc(t) == [type |-> t, msg |-> "", got |-> 0, expected |-> 0]

\* The job options of a command line.
Args ==
    [keep : BOOLEAN, no_index : BOOLEAN, ci_pr : BOOLEAN,
     vagrant_sync : BOOLEAN, vagrant : BOOLEAN]

VARIABLES
    admin,         \* parsed command line: the administrative options
    args,          \* parsed command line: the options of a job run
    indexScript,   \* os.path.isfile("utils/generate-index.sh")
    pc,            \* statement the job is at
    running,       \* inside a blocking remote call of the current phase
    disp,          \* disposition of SIGTERM and SIGHUP
    rc,            \* __main__ rc
    node,          \* __main__ node
    ssid,          \* __main__ ssid
    artifacts_dir, \* __main__ artifacts_dir
    storage,       \* ac.artifacts_storage
    nodeDict,      \* ac._node
    attempt,       \* allocate_node: index of the loop over Timeouts
    res,           \* allocate_node: res
    jroot,         \* allocate_node: jroot
    probe,         \* reboot_node: i
    ping_rc,       \* reboot_node: rc
    pending,       \* exception propagating out of the try statement
    exitStatus,    \* <<>> while the process lives, <<status>> afterwards
    leased,        \* pool side: session ids handed out with at least one host
    releases,      \* session ids free_session was called with, in order
    freeState,     \* the finally block's free_session call
    got,           \* history: the class of each /Node/get answer
    sleeps,        \* history: durations allocate_node slept
    allocResult,   \* history: how allocate_node ended
    lastAnswer,    \* history: the last body /Node/get answered with
    started,       \* history: phases started, in order
    failedPhase,   \* history: the phase that raised, "" if none did
    probes,        \* history: pings made by reboot_node
    sigs,          \* history: signals delivered
    sigexc,        \* history: a delivery raised SignalException
    killed,        \* history: a delivery killed the process
    ignored,       \* history: deliveries dropped by SIG_IGN
    sigPhase,      \* history: the phase a SignalException interrupted, "" if none
    nodes,         \* allocated_nodes: the list it returned
    idx,           \* free_all_nodes: position in nodes (0: nothing listed yet)
    call,          \* execute_remote_command: the call's inputs
    result         \* execute_remote_command: the call's outcome

vars ==
    <<args, indexScript, pc, running, disp, rc, node, ssid, artifacts_dir, storage,
      nodeDict, attempt, res, jroot, probe, ping_rc, pending, exitStatus, leased,
      releases, freeState, got, sleeps, allocResult, lastAnswer, started, failedPhase,
      probes, sigs, sigexc, killed, ignored, call, result, admin, sigPhase, nodes,
      idx>>

\* Groups of variables, for UNCHANGED.
mainVars == <<rc, node, ssid, artifacts_dir, storage, nodeDict>>
allocVars == <<attempt, res, jroot>>
rebootVars == <<probe, ping_rc>>
poolVars == <<leased, releases, freeState>>
allocHist == <<got, sleeps, allocResult, lastAnswer>>
sigHist == <<sigs, sigexc, killed, ignored, sigPhase>>
phaseHist == <<started, failedPhase>>
execVars == <<call, result>>
envVars == <<args, indexScript>>
adminVars == <<admin, nodes, idx>>

\* ------------------------------------------------------------- exceptions

\* Classes the clause "except Exception" catches (SystemExit is not one).
IsException(e) ==
    e.type \in {"Exception", "SignalException", "UnboundLocalError", "NameError",
                "KeyError", "RequestException"}

\* An exception leaves the try body: the matching except clause runs, and the
\* finally block after it; SystemExit matches no clause.
TryRaise(e) ==
    IF e.type = "SignalException"
    THEN pc' = "except_signal" /\ pending' = pending
    ELSE IF IsException(e)
    THEN pc' = "except_exception" /\ pending' = pending
    ELSE pc' = "finally" /\ pending' = e

\* An exception nothing catches ends the process: status 1, or the code of a
\* SystemExit.
ExitCodeOf(e) == IF e.type = "SystemExit" THEN e.got ELSE 1

Die(e) ==
    /\ pc' = "shutdown"
    /\ pending' = e
    /\ exitStatus' = <<ExitCodeOf(e)>>

\* ------------------------------------------------------ signal handlers

InstallTerm ==
    /\ pc = "install_term"
    /\ disp' = [disp EXCEPT ![SIGTERM] = "HANDLER"]
    /\ pc' = "install_hup"
    /\ UNCHANGED <<envVars, adminVars, running, mainVars, allocVars, rebootVars, pending,
                   exitStatus, poolVars, allocHist, phaseHist, probes, sigHist, execVars>>

InstallHup ==
    /\ pc = "install_hup"
    /\ disp' = [disp EXCEPT ![SIGHUP] = "HANDLER"]
    /\ pc' = "alloc_request"
    /\ attempt' = 1
    /\ UNCHANGED <<envVars, adminVars, running, mainVars, res, jroot, rebootVars, pending,
                   exitStatus, poolVars, allocHist, phaseHist, probes, sigHist, execVars>>

\* ------------------------------------------------------------ allocate_node

\* The pool hands out a lease with a body that names a host and a session.
Granted(r) ==
    r.kind = "json" /\ r.has_hosts /\ r.hosts # <<>> /\ r.has_ssid /\ r.ssid # ""

\* How a /Node/get answer reads to someone who sees only the body.
Class(r) ==
    IF r.kind = "error" THEN "error"
    ELSE IF r.kind = "text" \/ ~r.has_hosts \/ ~r.has_ssid THEN "incomplete"
    ELSE IF r.hosts = <<>> THEN "emptyhosts"
    ELSE "wellformed"

\* RaisesValueError with the check of the "ssid" key left out.
RaisesValueError_HostsOnly(r) ==
    r.kind = "text" \/ ~r.has_hosts

\* json.loads(res) raises ValueError, or the check of the two keys does.
RaisesValueError(r) ==
    r.kind = "text" \/ ~r.has_hosts \/ ~r.has_ssid

\* res = self._execute_api_command("/Node/get", payload)
AllocRequest ==
    /\ pc = "alloc_request"
    /\ \E r \in Responses :
        /\ got' = Append(got, Class(r))
        /\ lastAnswer' = r
        /\ leased' = IF Granted(r) THEN leased \cup {r.ssid} ELSE leased
        /\ IF r.kind = "error"
           THEN /\ TryRaise(Exc("RequestException"))
                /\ allocResult' = "raised"
                /\ attempt' = 0
                /\ res' = NoJroot
                /\ jroot' = NoJroot
           ELSE /\ res' = r
                /\ pc' = "alloc_parse"
                /\ UNCHANGED <<pending, allocResult, attempt, jroot>>
    /\ UNCHANGED <<envVars, adminVars, running, disp, mainVars, rebootVars, exitStatus, releases,
                   freeState, sleeps, phaseHist, probes, sigHist, execVars>>

\* jroot = json.loads(res); the check of "hosts" and "ssid"; break or except
AllocParse ==
    /\ pc = "alloc_parse"
    /\ jroot' = IF res.kind = "text" THEN jroot ELSE res
    /\ pc' = IF RaisesValueError(res) THEN "alloc_sleep" ELSE "alloc_extract"
    /\ UNCHANGED <<envVars, adminVars, running, disp, mainVars, attempt, res, rebootVars, pending,
                   exitStatus, poolVars, allocHist, phaseHist, probes, sigHist, execVars>>

\* AllocSleep with the loop one iteration short.
AllocSleep_StopsEarly ==
    /\ pc = "alloc_sleep"
    /\ sleeps' = Append(sleeps, Timeouts[attempt])
    /\ IF attempt < Len(Timeouts) - 1
       THEN attempt' = attempt + 1 /\ pc' = "alloc_request"
       ELSE attempt' = attempt /\ pc' = "alloc_extract"
    /\ UNCHANGED <<envVars, adminVars, running, disp, mainVars, res, jroot, rebootVars, pending,
                   exitStatus, poolVars, got, allocResult, lastAnswer, phaseHist, probes,
                   sigHist, execVars>>

\* time.sleep(timeout), then the next iteration or the end of the loop
AllocSleep ==
    /\ pc = "alloc_sleep"
    /\ sleeps' = Append(sleeps, Timeouts[attempt])
    /\ IF attempt < Len(Timeouts)
       THEN attempt' = attempt + 1 /\ pc' = "alloc_request"
       ELSE attempt' = attempt /\ pc' = "alloc_extract"
    /\ UNCHANGED <<envVars, adminVars, running, disp, mainVars, res, jroot, rebootVars, pending,
                   exitStatus, poolVars, got, allocResult, lastAnswer, phaseHist, probes,
                   sigHist,
                   execVars>>

\* Extract taking the last host of the list instead of the first.
Extract_LastHost(j) ==
    IF j.kind = "unbound"
    THEN [raises |-> "UnboundLocalError", host |-> NONE, ssid |-> NONE]
    ELSE IF ~j.has_hosts
    THEN [raises |-> "KeyError", host |-> NONE, ssid |-> NONE]
    ELSE IF j.hosts = <<>>
    THEN [raises |-> "", host |-> NONE, ssid |-> NONE]
    ELSE IF ~j.has_ssid
    THEN [raises |-> "KeyError", host |-> NONE, ssid |-> NONE]
    ELSE [raises |-> "", host |-> j.hosts[Len(j.hosts)], ssid |-> j.ssid]

\* host = jroot["hosts"][0]; ssid = jroot["ssid"] under
\* except (ValueError, IndexError): only the empty host list is caught.
Extract(j) ==
    IF j.kind = "unbound"
    THEN [raises |-> "UnboundLocalError", host |-> NONE, ssid |-> NONE]
    ELSE IF ~j.has_hosts
    THEN [raises |-> "KeyError", host |-> NONE, ssid |-> NONE]
    ELSE IF j.hosts = <<>>
    THEN [raises |-> "", host |-> NONE, ssid |-> NONE]
    ELSE IF ~j.has_ssid
    THEN [raises |-> "KeyError", host |-> NONE, ssid |-> NONE]
    ELSE [raises |-> "", host |-> j.hosts[1], ssid |-> j.ssid]

\* The end of allocate_node and node, ssid = ac.allocate_node(...)
AllocExtract ==
    /\ pc = "alloc_extract"
    /\ LET o == Extract(jroot) IN
        IF o.raises # ""
        THEN /\ TryRaise(Exc(o.raises))
             /\ allocResult' = "raised"
             /\ UNCHANGED <<node, ssid>>
        ELSE /\ node' = o.host
             /\ ssid' = o.ssid
             /\ allocResult' = IF o.host = NONE THEN "none" ELSE "lease"
             /\ pc' = "check_alloc"
             /\ UNCHANGED pending
    /\ attempt' = 0
    /\ res' = NoJroot
    /\ jroot' = NoJroot
    /\ UNCHANGED <<envVars, adminVars, running, disp, rc, artifacts_dir, storage, nodeDict,
                   rebootVars, exitStatus, poolVars, got, sleeps, lastAnswer, phaseHist,
                   probes,
                   sigHist, execVars>>

\* CheckAlloc going straight to the first phase: the artifacts directory is
\* not created before the host is used.
CheckAlloc_SkipsMkdtemp ==
    /\ pc = "check_alloc"
    /\ IF node = NONE \/ ssid = NONE
       THEN TryRaise([type |-> "SystemExit", msg |-> "", got |-> 1, expected |-> 0])
       ELSE pc' = "setup" /\ UNCHANGED pending
    /\ UNCHANGED <<envVars, adminVars, running, disp, mainVars, allocVars, rebootVars,
                   exitStatus, poolVars, allocHist, phaseHist, probes, sigHist, execVars>>

\* if node is None or ssid is None: sys.exit(1)
CheckAlloc ==
    /\ pc = "check_alloc"
    /\ IF node = NONE \/ ssid = NONE
       THEN TryRaise([type |-> "SystemExit", msg |-> "", got |-> 1, expected |-> 0])
       ELSE pc' = "mkdtemp" /\ UNCHANGED pending
    /\ UNCHANGED <<envVars, adminVars, running, disp, mainVars, allocVars, rebootVars, exitStatus,
                   poolVars, allocHist, phaseHist, probes, sigHist, execVars>>

\* artifacts_dir = tempfile.mkdtemp(...); ac.artifacts_storage = artifacts_dir
Mkdtemp ==
    /\ pc = "mkdtemp"
    /\ artifacts_dir' = "artifacts_tmp"
    /\ storage' = "artifacts_tmp"
    /\ pc' = "setup"
    /\ UNCHANGED <<envVars, adminVars, running, disp, rc, node, ssid, nodeDict, allocVars,
                   rebootVars, pending, exitStatus, poolVars, allocHist, phaseHist, probes,
                   sigHist, execVars>>

\* ---------------------------------------------------- execute_remote_command

\* execute_remote_command with ignore_rc not looked at.
execute_remote_command_IgnoresFlag(cmd_rc, expected_rc, has_artifacts_dir, ignore_rc, has_storage, arc) ==
    LET fetched == has_artifacts_dir /\ has_storage
        steps == <<"ssh">> \o (IF fetched THEN <<"scp">> ELSE <<>>) IN
    IF cmd_rc # expected_rc
    THEN [raised |-> TRUE, ret |-> <<>>,
          exc |-> [type |-> "Exception", msg |-> "unexpected return code",
                   got |-> cmd_rc, expected |-> expected_rc],
          fetched |-> fetched, warned |-> fetched /\ arc # 0,
          order |-> steps \o <<"raise">>]
    ELSE [raised |-> FALSE, ret |-> <<cmd_rc>>, exc |-> NoExc,
          fetched |-> fetched, warned |-> fetched /\ arc # 0,
          order |-> steps \o <<"return">>]

\* execute_remote_command with the exit code checked before the artifacts are
\* fetched: a failed command raises with nothing fetched.
execute_remote_command_ChecksFirst(cmd_rc, expected_rc, has_artifacts_dir, ignore_rc, has_storage, arc) ==
    LET fetched == has_artifacts_dir /\ has_storage IN
    IF ~ignore_rc /\ cmd_rc # expected_rc
    THEN [raised |-> TRUE, ret |-> <<>>,
          exc |-> [type |-> "Exception", msg |-> "unexpected return code",
                   got |-> cmd_rc, expected |-> expected_rc],
          fetched |-> FALSE, warned |-> FALSE,
          order |-> <<"ssh", "raise">>]
    ELSE [raised |-> FALSE, ret |-> <<cmd_rc>>, exc |-> NoExc,
          fetched |-> fetched, warned |-> fetched /\ arc # 0,
          order |-> <<"ssh">> \o (IF fetched THEN <<"scp">> ELSE <<>>) \o <<"return">>]

\* The outcome of one call, from the exit code of the ssh command (cmd_rc), the
\* arguments, whether ac.artifacts_storage is set and the exit code of the scp
\* that fetches the artifacts (arc).  ret is <<>> when the call raises; order
\* lists what the call did, in the order of its statements: the ssh command
\* (line 205), the scp of fetch_artifacts (209), the raise (214) or the
\* return (216).
execute_remote_command(cmd_rc, expected_rc, has_artifacts_dir, ignore_rc, has_storage, arc) ==
    LET fetched == has_artifacts_dir /\ has_storage
        steps == <<"ssh">> \o (IF fetched THEN <<"scp">> ELSE <<>>) IN
    IF ~ignore_rc /\ cmd_rc # expected_rc
    THEN [raised |-> TRUE, ret |-> <<>>,
          exc |-> [type |-> "Exception", msg |-> "unexpected return code",
                   got |-> cmd_rc, expected |-> expected_rc],
          fetched |-> fetched, warned |-> fetched /\ arc # 0,
          order |-> steps \o <<"raise">>]
    ELSE [raised |-> FALSE, ret |-> <<cmd_rc>>, exc |-> NoExc,
          fetched |-> fetched, warned |-> fetched /\ arc # 0,
          order |-> steps \o <<"return">>]

NoCall ==
    [cmd_rc |-> 0, expected_rc |-> 0, has_artifacts_dir |-> FALSE, ignore_rc |-> FALSE,
     has_storage |-> FALSE, arc |-> 0]
NoResult ==
    [raised |-> FALSE, ret |-> <<>>, exc |-> NoExc, fetched |-> FALSE, warned |-> FALSE,
     order |-> <<>>]

\* ------------------------------------------------------------------ phases

\* Phases that are one execute_remote_command with expected_rc=0, ignore_rc=False.
RemotePhases == {"setup", "ci_pr", "vagrant_sync", "vagrant", "bootstrap", "testsuite"}

\* Phases called with artifacts_dir=...
FetchesArtifacts(p) == p \in {"vagrant", "bootstrap", "testsuite"}

\* Variant with the tests in the other order: --vagrant wins over --vagrant-sync.
Variant_VagrantFirst ==
    IF args.vagrant THEN "vagrant"
    ELSE IF args.vagrant_sync THEN "upload"
    ELSE "bootstrap"

\* if args.vagrant_sync: ... elif args.vagrant: ... else: ...
Variant ==
    IF args.vagrant_sync THEN "upload"
    ELSE IF args.vagrant THEN "vagrant"
    ELSE "bootstrap"

\* The statement after phase p when p succeeded; "finally" after the last one.
NextPc(p) ==
    CASE p = "setup" -> IF args.ci_pr THEN "ci_pr" ELSE Variant
      [] p = "ci_pr" -> Variant
      [] p = "upload" -> "vagrant_sync"
      [] p = "vagrant_sync" -> "finally"
      [] p = "vagrant" -> "finally"
      [] p = "bootstrap" -> "reboot_cmd"
      [] p = "testsuite" -> "finally"

StartPhase(p) ==
    /\ pc = p
    /\ ~running
    /\ running' = TRUE
    /\ started' = Append(started, p)
    /\ UNCHANGED failedPhase
    /\ UNCHANGED <<envVars, adminVars, pc, disp, mainVars, allocVars, rebootVars, pending,
                   exitStatus, poolVars, allocHist, probes, sigHist, execVars>>

FinishPhase(p) ==
    /\ pc = p
    /\ running
    /\ running' = FALSE
    /\ \E r \in RCs, a \in ARCs :
        LET o == execute_remote_command(r, 0, FetchesArtifacts(p), FALSE,
                                        storage # NONE, a) IN
        IF o.raised
        THEN TryRaise(o.exc) /\ failedPhase' = p
        ELSE pc' = NextPc(p) /\ UNCHANGED <<pending, failedPhase>>
    /\ UNCHANGED <<envVars, adminVars, disp, mainVars, allocVars, rebootVars, exitStatus, poolVars,
                   allocHist, started, probes, sigHist, execVars>>

\* ac.upload_file(node, DUFFY_KEY_FILE, "/duffy.key"): the scp's code is dropped
StartUpload ==
    /\ pc = "upload"
    /\ ~running
    /\ running' = TRUE
    /\ started' = Append(started, "upload")
    /\ UNCHANGED failedPhase
    /\ UNCHANGED <<envVars, adminVars, pc, disp, mainVars, allocVars, rebootVars, pending,
                   exitStatus, poolVars, allocHist, probes, sigHist, execVars>>

FinishUpload ==
    /\ pc = "upload"
    /\ running
    /\ running' = FALSE
    /\ pc' = NextPc("upload")
    /\ UNCHANGED <<envVars, adminVars, disp, mainVars, allocVars, rebootVars, pending, exitStatus,
                   poolVars, allocHist, phaseHist, probes, sigHist, execVars>>

\* ------------------------------------------------------------- reboot_node

\* self.execute_remote_command(node, "systemctl reboot", 255, ignore_rc=True)
RebootCmdStart ==
    /\ pc = "reboot_cmd"
    /\ ~running
    /\ running' = TRUE
    /\ started' = Append(started, "reboot")
    /\ UNCHANGED failedPhase
    /\ UNCHANGED <<envVars, adminVars, pc, disp, mainVars, allocVars, rebootVars, pending,
                   exitStatus, poolVars, allocHist, probes, sigHist, execVars>>

RebootCmdFinish ==
    /\ pc = "reboot_cmd"
    /\ running
    /\ running' = FALSE
    /\ \E r \in RCs, a \in ARCs :
        LET o == execute_remote_command(r, 255, FALSE, TRUE, storage # NONE, a) IN
        IF o.raised
        THEN TryRaise(o.exc) /\ failedPhase' = "reboot"
        ELSE pc' = "reboot_cooldown" /\ UNCHANGED <<pending, failedPhase>>
    /\ UNCHANGED <<envVars, adminVars, disp, mainVars, allocVars, rebootVars, exitStatus, poolVars,
                   allocHist, started, probes, sigHist, execVars>>

\* time.sleep(30), then the loop over range(10) starts
RebootCooldown ==
    /\ pc = "reboot_cooldown"
    /\ probe' = 0
    /\ pc' = "reboot_probe"
    /\ UNCHANGED <<envVars, adminVars, running, disp, mainVars, allocVars, ping_rc, pending,
                   exitStatus, poolVars, allocHist, phaseHist, probes, sigHist, execVars>>

\* RebootProbe without the "break": the loop goes on after a ping that succeeded.
RebootProbe_NoBreak ==
    /\ pc = "reboot_probe"
    /\ \E r \in PingRCs : ping_rc' = r
    /\ pc' = "reboot_wait"
    /\ probes' = probes + 1
    /\ UNCHANGED <<envVars, adminVars, running, disp, mainVars, allocVars, probe, pending,
                   exitStatus, poolVars, allocHist, phaseHist, sigHist, execVars>>

\* rc = self.execute_local_command(ping_command); if rc == 0: break
RebootProbe ==
    /\ pc = "reboot_probe"
    /\ \E r \in PingRCs :
        /\ ping_rc' = r
        /\ pc' = IF r = 0 THEN "reboot_check" ELSE "reboot_wait"
    /\ probes' = probes + 1
    /\ UNCHANGED <<envVars, adminVars, running, disp, mainVars, allocVars, probe, pending,
                   exitStatus, poolVars, allocHist, phaseHist, sigHist, execVars>>

\* time.sleep(15), then the next i or the end of the loop
RebootWait ==
    /\ pc = "reboot_wait"
    /\ IF probe + 1 < ProbeCount
       THEN probe' = probe + 1 /\ pc' = "reboot_probe"
       ELSE probe' = probe /\ pc' = "reboot_check"
    /\ UNCHANGED <<envVars, adminVars, running, disp, mainVars, allocVars, ping_rc, pending,
                   exitStatus, poolVars, allocHist, phaseHist, probes, sigHist, execVars>>

\* if rc != 0: raise Exception("Timeout reached ...")
RebootCheck ==
    /\ pc = "reboot_check"
    /\ IF ping_rc # 0
       THEN /\ TryRaise([type |-> "Exception", msg |-> "timeout", got |-> 0,
                         expected |-> 0])
            /\ failedPhase' = "reboot"
       ELSE pc' = "reboot_settle" /\ UNCHANGED <<pending, failedPhase>>
    /\ UNCHANGED <<envVars, adminVars, running, disp, mainVars, allocVars, rebootVars, exitStatus,
                   poolVars, allocHist, started, probes, sigHist, execVars>>

\* time.sleep(30); reboot_node returns
RebootSettle ==
    /\ pc = "reboot_settle"
    /\ pc' = "testsuite"
    /\ UNCHANGED <<envVars, adminVars, running, disp, mainVars, allocVars, rebootVars, pending,
                   exitStatus, poolVars, allocHist, phaseHist, probes, sigHist, execVars>>

\* --------------------------------------------------------- except clauses

\* ExceptSignal recording the signal as a failure, like any other exception.
ExceptSignal_SetsRc ==
    /\ pc = "except_signal"
    /\ rc' = 1
    /\ pc' = "finally"
    /\ UNCHANGED <<envVars, adminVars, running, disp, node, ssid, artifacts_dir, storage,
                   nodeDict, allocVars, rebootVars, pending, exitStatus, poolVars,
                   allocHist, phaseHist, probes, sigHist, execVars>>

\* except SignalException: logging.info("Ignoring received signal...")
ExceptSignal ==
    /\ pc = "except_signal"
    /\ pc' = "finally"
    /\ UNCHANGED <<envVars, adminVars, running, disp, mainVars, allocVars, rebootVars, pending,
                   exitStatus, poolVars, allocHist, phaseHist, probes, sigHist, execVars>>

\* ExceptException without "rc = 1".
ExceptException_KeepsRc ==
    /\ pc = "except_exception"
    /\ pc' = "finally"
    /\ UNCHANGED <<envVars, adminVars, running, disp, mainVars, allocVars, rebootVars, pending,
                   exitStatus, poolVars, allocHist, phaseHist, probes, sigHist, execVars>>

\* except Exception as e: logging.exception(...); rc = 1
ExceptException ==
    /\ pc = "except_exception"
    /\ rc' = 1
    /\ pc' = "finally"
    /\ UNCHANGED <<envVars, adminVars, running, disp, node, ssid, artifacts_dir, storage, nodeDict,
                   allocVars, rebootVars, pending, exitStatus, poolVars, allocHist,
                   phaseHist, probes, sigHist, execVars>>

\* ----------------------------------------------------------- finally block

\* Answers of the pool to /Node/done: the acknowledgment, another body, or no
\* answer because the request failed.
FreeOutcomes == {"done", "refused", "error"}

\* Finally with --keep not looked at: the lease is always released.
Finally_IgnoresKeep ==
    /\ pc = "finally"
    /\ pc' = "fin_ign_term"
    /\ UNCHANGED <<envVars, adminVars, running, disp, mainVars, allocVars, rebootVars,
                   pending, exitStatus, poolVars, allocHist, phaseHist, probes, sigHist,
                   execVars>>

\* if not args.keep:
Finally ==
    /\ pc = "finally"
    /\ pc' = IF args.keep THEN "fin_index" ELSE "fin_ign_term"
    /\ UNCHANGED <<envVars, adminVars, running, disp, mainVars, allocVars, rebootVars, pending,
                   exitStatus, poolVars, allocHist, phaseHist, probes, sigHist, execVars>>

\* signal.signal(signal.SIGTERM, signal.SIG_IGN)
FinIgnTerm ==
    /\ pc = "fin_ign_term"
    /\ disp' = [disp EXCEPT ![SIGTERM] = "IGN"]
    /\ pc' = "fin_ign_hup"
    /\ UNCHANGED <<envVars, adminVars, running, mainVars, allocVars, rebootVars, pending,
                   exitStatus, poolVars, allocHist, phaseHist, probes, sigHist, execVars>>

\* FinIgnHup with the call left out: SIGHUP keeps its handler during the release.
FinIgnHup_Skipped ==
    /\ pc = "fin_ign_hup"
    /\ pc' = "fin_free"
    /\ UNCHANGED <<envVars, adminVars, running, disp, mainVars, allocVars, rebootVars, pending,
                   exitStatus, poolVars, allocHist, phaseHist, probes, sigHist, execVars>>

\* signal.signal(signal.SIGHUP, signal.SIG_IGN)
FinIgnHup ==
    /\ pc = "fin_ign_hup"
    /\ disp' = [disp EXCEPT ![SIGHUP] = "IGN"]
    /\ pc' = "fin_free"
    /\ UNCHANGED <<envVars, adminVars, running, mainVars, allocVars, rebootVars, pending,
                   exitStatus, poolVars, allocHist, phaseHist, probes, sigHist, execVars>>

\* ac.free_session(ssid): the name ssid is looked up, then the call is made
FinFree ==
    /\ pc = "fin_free"
    /\ IF ssid = UNBOUND
       THEN /\ Die(Exc("NameError"))
            /\ UNCHANGED <<releases, freeState>>
       ELSE /\ releases' = Append(releases, ssid)
            /\ freeState' = "calling"
            /\ pc' = "fin_free_wait"
            /\ UNCHANGED <<pending, exitStatus>>
    /\ UNCHANGED <<envVars, adminVars, running, disp, mainVars, allocVars, rebootVars, leased,
                   allocHist, phaseHist, probes, sigHist, execVars>>

\* free_session: res = self._execute_api_command("/Node/done", ...); logging.info(res)
FinFreeReturn ==
    /\ pc = "fin_free_wait"
    /\ \E o \in FreeOutcomes :
        /\ leased' = IF o = "done" THEN leased \ {ssid} ELSE leased
        /\ IF o = "error"
           THEN /\ freeState' = "raised"
                /\ Die(Exc("RequestException"))
           ELSE /\ freeState' = "returned"
                /\ pc' = "fin_dfl_term"
                /\ UNCHANGED <<pending, exitStatus>>
    /\ UNCHANGED <<envVars, adminVars, running, disp, mainVars, allocVars, rebootVars, releases,
                   allocHist, phaseHist, probes, sigHist, execVars>>

\* signal.signal(signal.SIGTERM, signal.SIG_DFL)
FinDflTerm ==
    /\ pc = "fin_dfl_term"
    /\ disp' = [disp EXCEPT ![SIGTERM] = "DFL"]
    /\ pc' = "fin_dfl_hup"
    /\ UNCHANGED <<envVars, adminVars, running, mainVars, allocVars, rebootVars, pending,
                   exitStatus, poolVars, allocHist, phaseHist, probes, sigHist, execVars>>

\* signal.signal(signal.SIGHUP, signal.SIG_DFL)
FinDflHup ==
    /\ pc = "fin_dfl_hup"
    /\ disp' = [disp EXCEPT ![SIGHUP] = "DFL"]
    /\ pc' = "fin_index"
    /\ UNCHANGED <<envVars, adminVars, running, mainVars, allocVars, rebootVars, pending,
                   exitStatus, poolVars, allocHist, phaseHist, probes, sigHist, execVars>>

\* if os.path.isfile("utils/generate-index.sh") and not args.no_index:
\*     command = ["utils/generate-index.sh", artifacts_dir, "index.html"]
FinIndex ==
    /\ pc = "fin_index"
    /\ IF indexScript /\ ~args.no_index
       THEN IF artifacts_dir = UNBOUND
            THEN Die(Exc("NameError"))
            ELSE pc' = "fin_index_run" /\ UNCHANGED <<pending, exitStatus>>
       ELSE pc' = "fin_end" /\ UNCHANGED <<pending, exitStatus>>
    /\ UNCHANGED <<envVars, adminVars, running, disp, mainVars, allocVars, rebootVars, poolVars,
                   allocHist, phaseHist, probes, sigHist, execVars>>

\* ac.execute_local_command(command): its exit code is dropped
FinIndexRun ==
    /\ pc = "fin_index_run"
    /\ pc' = "fin_end"
    /\ UNCHANGED <<envVars, adminVars, running, disp, mainVars, allocVars, rebootVars, pending,
                   exitStatus, poolVars, allocHist, phaseHist, probes, sigHist, execVars>>

\* The finally block ends: a pending exception goes on, else sys.exit(rc) is next.
FinEnd ==
    /\ pc = "fin_end"
    /\ IF pending # NoExc
       THEN Die(pending)
       ELSE pc' = "sys_exit" /\ UNCHANGED <<pending, exitStatus>>
    /\ UNCHANGED <<envVars, adminVars, running, disp, mainVars, allocVars, rebootVars, poolVars,
                   allocHist, phaseHist, probes, sigHist, execVars>>

\* sys.exit(rc)
SysExit ==
    /\ pc = "sys_exit"
    /\ exitStatus' = <<rc>>
    /\ pc' = "shutdown"
    /\ UNCHANGED <<envVars, adminVars, running, disp, mainVars, allocVars, rebootVars, pending,
                   poolVars, allocHist, phaseHist, probes, sigHist, execVars>>

\* Del as it would be if the lease were kept in self._node: the finalizer
\* frees the session again.
Del_FreesLease ==
    /\ pc = "shutdown"
    /\ releases' = IF ssid \notin {UNBOUND, NONE}
                   THEN Append(releases, ssid)
                   ELSE releases
    /\ pc' = "exited"
    /\ UNCHANGED <<envVars, adminVars, running, disp, mainVars, allocVars, rebootVars, pending,
                   exitStatus, leased, freeState, allocHist, phaseHist, probes, sigHist,
                   execVars>>

\* AgentControl.__del__ when the interpreter shuts down; self._node is a dict
\* (never None), so the test is the one of the key "ssid".
Del ==
    /\ pc = "shutdown"
    /\ releases' = IF "ssid" \in DOMAIN nodeDict
                   THEN Append(releases, nodeDict["ssid"])
                   ELSE releases
    /\ pc' = "exited"
    /\ UNCHANGED <<envVars, adminVars, running, disp, mainVars, allocVars, rebootVars, pending,
                   exitStatus, leased, freeState, allocHist, phaseHist, probes, sigHist,
                   execVars>>

\* ------------------------------------------------ administrative options

\* A non-empty string is true, None and "" are false.
Truthy(x) == x \notin {NONE, ""}

\* The branch of lines 370-382 the command line selects.
Selected ==
    IF Truthy(admin.free_session) THEN "free_session"
    ELSE IF admin.free_all_nodes THEN "free_all_nodes"
    ELSE IF admin.list_nodes THEN "list_nodes"
    ELSE "job"

\* if args.free_session: ... if args.free_all_nodes: ... if args.list_nodes: ...
\* rc = 0
Dispatch ==
    /\ pc = "dispatch"
    /\ pc' = CASE Selected = "free_session" -> "adm_free"
             [] Selected = "free_all_nodes" -> "adm_inventory"
             [] Selected = "list_nodes" -> "adm_inventory"
             [] Selected = "job" -> "install_term"
    /\ rc' = 0
    /\ UNCHANGED <<envVars, adminVars, running, disp, node, ssid, artifacts_dir, storage,
                   nodeDict, allocVars, rebootVars, pending, exitStatus, poolVars,
                   allocHist, phaseHist, probes, sigHist, execVars>>

\* ac.free_session(args.free_session): outside any try statement, so a failed
\* request ends the process.
AdminFreeSession ==
    /\ pc = "adm_free"
    /\ releases' = Append(releases, admin.free_session)
    /\ \E o \in FreeOutcomes :
        /\ leased' = IF o = "done" THEN leased \ {admin.free_session} ELSE leased
        /\ IF o = "error"
           THEN Die(Exc("RequestException"))
           ELSE pc' = "adm_exit" /\ UNCHANGED <<pending, exitStatus>>
    /\ UNCHANGED <<envVars, adminVars, running, disp, mainVars, allocVars, rebootVars,
                   freeState, allocHist, phaseHist, probes, sigHist, execVars>>

\* What /Inventory can answer: a JSON list of [host, ssid] pairs, a body that is
\* no JSON, or nothing because the request failed.
InventoryNodes ==
    {<<>>,
     <<[host |-> "host2", ssid |-> "xyz"]>>,
     <<[host |-> "host2", ssid |-> "xyz"], [host |-> "host1", ssid |-> "abc"]>>}
InventoryAnswers ==
    {[kind |-> "json", nodes |-> l] : l \in InventoryNodes} \cup
    {[kind |-> "text", nodes |-> <<>>], [kind |-> "error", nodes |-> <<>>]}

\* allocated_nodes(): the request, json.loads and the list of dicts; called by
\* free_all_nodes (line 248) and for --list-nodes (line 379).
AllocatedNodes ==
    /\ pc = "adm_inventory"
    /\ \E a \in InventoryAnswers :
        CASE a.kind = "error" ->
                /\ Die(Exc("RequestException"))
                /\ UNCHANGED <<nodes, idx>>
          [] a.kind = "text" ->
                /\ Die(Exc("ValueError"))
                /\ UNCHANGED <<nodes, idx>>
          [] a.kind = "json" ->
                /\ nodes' = a.nodes
                /\ idx' = 1
                /\ pc' = IF Selected = "free_all_nodes" THEN "adm_free_loop" ELSE "adm_exit"
                /\ UNCHANGED <<pending, exitStatus>>
    /\ UNCHANGED <<envVars, admin, running, disp, mainVars, allocVars, rebootVars,
                   poolVars, allocHist, phaseHist, probes, sigHist, execVars>>

\* for node in nodes: self.free_session(node["ssid"]) -- one iteration, or the
\* end of the loop; a free_session that raises leaves the loop and the process.
FreeAllNodes ==
    /\ pc = "adm_free_loop"
    /\ IF idx <= Len(nodes)
       THEN /\ releases' = Append(releases, nodes[idx].ssid)
            /\ idx' = idx + 1
            /\ \E o \in FreeOutcomes :
                /\ leased' = IF o = "done" THEN leased \ {nodes[idx].ssid} ELSE leased
                /\ IF o = "error"
                   THEN Die(Exc("RequestException"))
                   ELSE pc' = pc /\ UNCHANGED <<pending, exitStatus>>
       ELSE /\ pc' = "adm_exit"
            /\ UNCHANGED <<releases, idx, leased, pending, exitStatus>>
    /\ UNCHANGED <<envVars, admin, nodes, running, disp, mainVars, allocVars, rebootVars,
                   freeState, allocHist, phaseHist, probes, sigHist, execVars>>

\* sys.exit(0) of lines 372, 376 and 380
AdminExit ==
    /\ pc = "adm_exit"
    /\ exitStatus' = <<0>>
    /\ pc' = "shutdown"
    /\ UNCHANGED <<envVars, adminVars, running, disp, mainVars, allocVars, rebootVars,
                   pending, poolVars, allocHist, phaseHist, probes, sigHist, execVars>>

\* ----------------------------------------------------------------- signals

TryPCs ==
    {"install_term", "install_hup", "alloc_request", "alloc_parse", "alloc_sleep",
     "alloc_extract", "check_alloc", "mkdtemp", "setup", "ci_pr", "upload",
     "vagrant_sync", "vagrant", "bootstrap", "reboot_cmd", "reboot_cooldown",
     "reboot_probe", "reboot_wait", "reboot_check", "reboot_settle", "testsuite"}
AllocPCs == {"alloc_request", "alloc_parse", "alloc_sleep", "alloc_extract"}
RebootPCs ==
    {"reboot_cooldown", "reboot_probe", "reboot_wait", "reboot_check", "reboot_settle"}
ExceptPCs == {"except_signal", "except_exception"}
FinallyPCs ==
    {"finally", "fin_ign_term", "fin_ign_hup", "fin_free", "fin_free_wait",
     "fin_dfl_term", "fin_dfl_hup", "fin_index", "fin_index_run", "fin_end"}

\* handle_signal raises SignalException at the statement the job is at: in the
\* try body the clause "except SignalException" catches it; in an except clause
\* it replaces the handled exception and the finally block still runs; in the
\* finally block or after it nothing catches it.
HandleSignal ==
    /\ sigexc' = TRUE
    /\ running' = FALSE
    /\ IF pc \in TryPCs
       THEN /\ TryRaise(Exc("SignalException"))
            /\ UNCHANGED exitStatus
       ELSE IF pc \in ExceptPCs
       THEN /\ pc' = "finally"
            /\ pending' = Exc("SignalException")
            /\ UNCHANGED exitStatus
       ELSE Die(Exc("SignalException"))
    /\ IF pc \in AllocPCs
       THEN /\ allocResult' = "interrupted"
            /\ attempt' = 0
            /\ res' = NoJroot
            /\ jroot' = NoJroot
       ELSE UNCHANGED <<allocResult, allocVars>>
    /\ sigPhase' = IF pc \in TryPCs /\ (running \/ pc \in RebootPCs)
                   THEN started[Len(started)]
                   ELSE sigPhase
    /\ UNCHANGED <<killed, ignored, disp, mainVars, rebootVars, poolVars, got, sleeps,
                   lastAnswer>>

\* The default action of SIGTERM and SIGHUP ends the process at once.
DefaultAction(s) ==
    /\ killed' = TRUE
    /\ pc' = "exited"
    /\ exitStatus' = <<128 + s>>
    /\ UNCHANGED <<sigexc, ignored, sigPhase, running, disp, mainVars, allocVars,
                   rebootVars, pending, poolVars, allocHist>>

\* One delivery of SIGTERM or SIGHUP to the live process.
Signal(s) ==
    /\ pc \notin {"shutdown", "exited", "harness"}
    /\ sigs < MaxSignals
    /\ sigs' = sigs + 1
    /\ CASE disp[s] = "HANDLER" -> HandleSignal
         [] disp[s] = "DFL" -> DefaultAction(s)
         [] disp[s] = "IGN" ->
                /\ ignored' = ignored + 1
                /\ UNCHANGED <<sigexc, killed, sigPhase, pc, running, disp, mainVars,
                               allocVars, rebootVars, pending, exitStatus, poolVars,
                               allocHist>>
    /\ UNCHANGED <<envVars, adminVars, phaseHist, probes, execVars>>

\* --------------------------------------------------------- specification

\* The administrative options of a command line; free_session is None when
\* the option is not given, else its argument.
AdminArgs ==
    [free_session : {NONE, "", "abc"}, free_all_nodes : BOOLEAN, list_nodes : BOOLEAN]
NoAdmin == [free_session |-> NONE, free_all_nodes |-> FALSE, list_nodes |-> FALSE]
NoArgs ==
    [keep |-> FALSE, no_index |-> FALSE, ci_pr |-> FALSE, vagrant_sync |-> FALSE,
     vagrant |-> FALSE]

\* The process after "ac = AgentControl()": a command line with job options
\* only, or one with administrative options only.
Init ==
    /\ \/ admin = NoAdmin /\ args \in Args
       \/ admin \in AdminArgs \ {NoAdmin} /\ args = NoArgs
    /\ indexScript \in BOOLEAN
    /\ pc = "dispatch"
    /\ sigPhase = ""
    /\ nodes = <<>>
    /\ idx = 0
    /\ running = FALSE
    /\ disp = [s \in Signals |-> "DFL"]
    /\ rc = 0
    /\ node = UNBOUND
    /\ ssid = UNBOUND
    /\ artifacts_dir = UNBOUND
    /\ storage = NONE
    /\ nodeDict = [k \in {} |-> ""]
    /\ attempt = 0
    /\ res = NoJroot
    /\ jroot = NoJroot
    /\ probe = 0
    /\ ping_rc = -1
    /\ pending = NoExc
    /\ exitStatus = <<>>
    /\ leased = {}
    /\ releases = <<>>
    /\ freeState = "none"
    /\ got = <<>>
    /\ sleeps = <<>>
    /\ allocResult = "pending"
    /\ lastAnswer = NoJroot
    /\ started = <<>>
    /\ failedPhase = ""
    /\ probes = 0
    /\ sigs = 0
    /\ sigexc = FALSE
    /\ killed = FALSE
    /\ ignored = 0
    /\ call = NoCall
    /\ result = NoResult

Next ==
    \/ Dispatch
    \/ AdminFreeSession
    \/ AllocatedNodes
    \/ FreeAllNodes
    \/ AdminExit
    \/ InstallTerm
    \/ InstallHup
    \/ AllocRequest
    \/ AllocParse
    \/ AllocSleep
    \/ AllocExtract
    \/ CheckAlloc
    \/ Mkdtemp
    \/ \E p \in RemotePhases : StartPhase(p)
    \/ \E p \in RemotePhases : FinishPhase(p)
    \/ StartUpload
    \/ FinishUpload
    \/ RebootCmdStart
    \/ RebootCmdFinish
    \/ RebootCooldown
    \/ RebootProbe
    \/ RebootWait
    \/ RebootCheck
    \/ RebootSettle
    \/ ExceptSignal
    \/ ExceptException
    \/ Finally
    \/ FinIgnTerm
    \/ FinIgnHup
    \/ FinFree
    \/ FinFreeReturn
    \/ FinDflTerm
    \/ FinDflHup
    \/ FinIndex
    \/ FinIndexRun
    \/ FinEnd
    \/ SysExit
    \/ Del
    \/ \E s \in Signals : Signal(s)

Spec == Init /\ [][Next]_vars

\* ------------------------------- execute_remote_command called on its own

\* Every call: the remote command's exit code, the expected code, the two
\* flags, whether the artifacts storage is set, the fetch's exit code.
CallInputs ==
    [cmd_rc : RCs, expected_rc : RCs, has_artifacts_dir : BOOLEAN, ignore_rc : BOOLEAN,
     has_storage : BOOLEAN, arc : ARCs]

InitExec ==
    /\ admin = NoAdmin
    /\ args = NoArgs
    /\ sigPhase = ""
    /\ nodes = <<>>
    /\ idx = 0
    /\ indexScript = FALSE
    /\ pc = "harness"
    /\ running = FALSE
    /\ disp = [s \in Signals |-> "DFL"]
    /\ rc = 0
    /\ node = "host1"
    /\ ssid = "abc"
    /\ artifacts_dir = UNBOUND
    /\ storage = NONE
    /\ nodeDict = [k \in {} |-> ""]
    /\ attempt = 0
    /\ res = NoJroot
    /\ jroot = NoJroot
    /\ probe = 0
    /\ ping_rc = -1
    /\ pending = NoExc
    /\ exitStatus = <<>>
    /\ leased = {}
    /\ releases = <<>>
    /\ freeState = "none"
    /\ got = <<>>
    /\ sleeps = <<>>
    /\ allocResult = "pending"
    /\ lastAnswer = NoJroot
    /\ started = <<>>
    /\ failedPhase = ""
    /\ probes = 0
    /\ sigs = 0
    /\ sigexc = FALSE
    /\ killed = FALSE
    /\ ignored = 0
    /\ call \in CallInputs
    /\ result = NoResult

\* ac.execute_remote_command(node, command, expected_rc, artifacts_dir, ignore_rc)
ExecuteRemoteCommand ==
    /\ pc = "harness"
    /\ result' = execute_remote_command(call.cmd_rc, call.expected_rc,
                                        call.has_artifacts_dir, call.ignore_rc,
                                        call.has_storage, call.arc)
    /\ pc' = "harness_done"
    /\ UNCHANGED <<envVars, adminVars, running, disp, mainVars, allocVars, rebootVars, pending,
                   exitStatus, poolVars, allocHist, phaseHist, probes, sigHist, call>>

NextExec == ExecuteRemoteCommand

SpecExec == InitExec /\ [][NextExec]_vars

\* ================================================================== claims

Count(seq, x) == Cardinality({i \in DOMAIN seq : seq[i] = x})

\* Every answer of /Node/get so far is of one of the classes in S.
AllAnswers(S) == \A i \in DOMAIN got : got[i] \in S

\* allocate_node is over: it returned or raised of its own.
AllocEnded == allocResult \in {"lease", "none", "raised"}

\* C1: a job without --keep that got a lease from allocate_node and reaches
\* process exit with no SignalException raised has made exactly one
\* free_session call, for the lease's session id; in no state has the session
\* id been released twice (the finalizer adds no call).
C1_ExactlyOneRelease ==
    /\ Count(releases, ssid) <= 1
    /\ (pc = "exited" /\ ~args.keep /\ allocResult = "lease" /\ ~sigexc)
          => releases = <<ssid>>

\* C1 witness: such a job at process exit after a phase raised.
C1_Witness ==
    /\ pc = "exited"
    /\ ~args.keep
    /\ allocResult = "lease"
    /\ ~sigexc
    /\ failedPhase = "bootstrap"
    /\ releases = <<"abc">>

\* C2 (as claimed): when allocate_node ends without a host and a session id,
\* free_session is never called, and a process that no signal disturbed exits
\* with a status other than 0.
C2_NoReleaseWithoutLease ==
    allocResult \in {"none", "raised"} =>
        /\ releases = <<>>
        /\ (pc = "exited" /\ ~sigexc /\ ~killed) => exitStatus # <<0>>

\* C3 (as claimed): without --keep, once the process is gone a release call has
\* been issued for every lease the pool handed out, whatever signals came.
C3_LeaseNeverOrphaned ==
    (pc = "exited" /\ ~args.keep) =>
        \A l \in leased : Count(releases, l) >= 1

\* C4: while the finally block's free_session call is executing both signals
\* are ignored and no delivery raises SignalException or ends the process;
\* free_session is called at most once in a job run; and a signal is set back to
\* its default action only when that call has returned.
C4_ReleaseNotReentered ==
    /\ [](/\ (freeState = "calling" <=> pc = "fin_free_wait")
          /\ (freeState = "calling" => \A s \in Signals : disp[s] = "IGN")
          /\ Selected = "job" => Len(releases) <= 1)
    /\ [][/\ freeState = "calling" => (sigexc' = sigexc /\ killed' = killed)
          /\ \A s \in Signals :
                (disp[s] # "DFL" /\ disp'[s] = "DFL") => freeState = "returned"]_vars

\* C4 witness: a signal raised SignalException in the try body and a later one
\* arrived, and was dropped, while free_session was executing.
C4_Witness ==
    /\ freeState = "calling"
    /\ sigexc
    /\ ignored = 1

\* C5: after a phase raised (a remote command's unexpected exit code, or the
\* reboot's timeout) that phase stays the last one started; a process that then
\* ends otherwise than killed by a signal ends with status 1; and without --keep
\* and with no SignalException raised it has called free_session once, with
\* the session id allocate_node returned.
C5_PhaseFailure ==
    failedPhase # "" =>
        /\ started # <<>>
        /\ started[Len(started)] = failedPhase
        /\ allocResult = "lease"
        /\ (pc = "exited" /\ ~killed) => exitStatus = <<1>>
        /\ (pc = "exited" /\ ~args.keep /\ ~sigexc) =>
              (releases = <<ssid>> /\ ssid = lastAnswer.ssid)

\* C5 witness: the reboot timed out, the lease was released, the status is 1.
C5_Witness ==
    /\ pc = "exited"
    /\ failedPhase = "reboot"
    /\ probes = ProbeCount
    /\ releases = <<"abc">>
    /\ exitStatus = <<1>>

C7_FirstWellFormed ==
    (got # <<>> /\ got[Len(got)] = "wellformed") =>
        /\ \A i \in 1..(Len(got) - 1) : got[i] = "incomplete"
        /\ sleeps = SubSeq(Timeouts, 1, Len(got) - 1)
        /\ AllocEnded =>
              /\ allocResult = "lease"
              /\ node = lastAnswer.hosts[1]
              /\ ssid = lastAnswer.ssid

\* C7 witness: two incomplete answers, then hosts ["host2", "host1"]: slept 60
\* and 300, returned host2.
C7_Witness ==
    /\ allocResult = "lease"
    /\ got = <<"incomplete", "incomplete", "wellformed">>
    /\ sleeps = <<60, 300>>
    /\ node = "host2"
    /\ ssid = "abc"

C9_ExhaustionReturnsNone ==
    (Len(got) = Len(Timeouts) /\ AllAnswers({"incomplete"}) /\ AllocEnded) =>
        /\ allocResult = "none"
        /\ (pc = "exited" /\ ~sigexc /\ ~killed) => exitStatus = <<1>>

C11_FetchNeverChangesOutcome ==
    pc = "harness_done" =>
        LET ok == execute_remote_command(call.cmd_rc, call.expected_rc,
                                         call.has_artifacts_dir, call.ignore_rc,
                                         call.has_storage, 0) IN
        /\ result.fetched <=> (call.has_artifacts_dir /\ call.has_storage)
        /\ result.order[1] = "ssh"
        /\ result.fetched <=> (Len(result.order) = 3 /\ result.order[2] = "scp")
        /\ result.order[Len(result.order)] = (IF result.raised THEN "raise" ELSE "return")
        /\ result.warned <=> (result.fetched /\ call.arc # 0)
        /\ result.raised = ok.raised
        /\ result.ret = ok.ret
        /\ result.exc = ok.exc
        /\ result.raised <=> (~call.ignore_rc /\ call.cmd_rc # call.expected_rc)

\* C11 witness: the command failed, the artifacts were fetched before the
\* raise, and the fetch failed too.
C11_Witness ==
    /\ pc = "harness_done"
    /\ call.has_artifacts_dir
    /\ call.has_storage
    /\ call.cmd_rc = 1
    /\ call.expected_rc = 0
    /\ ~call.ignore_rc
    /\ call.arc = 1
    /\ result.raised
    /\ result.warned
    /\ result.order = <<"ssh", "scp", "raise">>

\* reboot_node is past its probe loop.
RebootDecided == pc \in {"reboot_check", "reboot_settle", "testsuite"}

\* C12: reboot_node never pings more than 10 times; it pings again only while
\* no ping has succeeded; it leaves the loop for the success path on the first
\* ping that ends with 0, having made i+1 pings when that is the one of
\* iteration i; and it raises the timeout only when 10 pings were made and
\* the last (hence every one) failed.
C12_RebootProbes ==
    /\ [](/\ probes <= ProbeCount
          /\ (pc = "reboot_check" /\ ping_rc = 0) => probes = probe + 1
          /\ (pc = "reboot_check" /\ ping_rc # 0) => probes = ProbeCount
          /\ pc \in {"reboot_settle", "testsuite"} => ping_rc = 0
          /\ failedPhase = "reboot" => (probes = ProbeCount /\ ping_rc # 0))
    /\ [][/\ probes' # probes =>
                (pc = "reboot_probe" /\ probes' = probes + 1 /\ probes = probe
                    /\ (probes > 0 => ping_rc # 0))
          /\ (RebootDecided /\ ping_rc = 0) => probes' = probes]_vars

\* C12 witness: three pings failed, the fourth succeeded, no fifth was made and
\* the testsuite is next.
C12_Witness ==
    /\ pc = "testsuite"
    /\ probes = 4
    /\ probe = 3
    /\ ping_rc = 0
    /\ failedPhase = ""

\* C13 (as claimed): the finally block's free_session call never raises,
\* whatever the pool call does: once begun it returns, and the finally block
\* goes on to restore the signals.
C13_ReleaseNeverThrows ==
    /\ freeState # "raised"
    /\ (pc = "exited" /\ freeState # "none" /\ ~killed /\ ~sigexc) =>
          (freeState = "returned" /\ \A s \in Signals : disp[s] = "DFL")

\* C14 (as claimed): when --free-all-nodes has listed the leases and the
\* process has ended of its own (no signal killed it), free_session was called
\* for every listed lease, once each and in the order of the list, whether
\* earlier releases failed or not.
C14_ReleaseAttemptedForEveryLease ==
    (Selected = "free_all_nodes" /\ idx > 0 /\ pc = "exited" /\ ~killed) =>
        /\ Len(releases) = Len(nodes)
        /\ \A i \in DOMAIN nodes : releases[i] = nodes[i].ssid

\* C15: when a SIGTERM or SIGHUP raised SignalException while a phase was
\* running on the leased host, and it is the only delivery that was not
\* ignored, then the interrupted phase stays the last one started and the job
\* is out of the try body; the process exits with status 0 unless the release
\* request itself failed; and without --keep free_session has been called once,
\* with the lease's session id.
C15_SignalIsCleanExit ==
    (sigPhase # "" /\ sigs - ignored = 1) =>
        /\ started # <<>>
        /\ started[Len(started)] = sigPhase
        /\ failedPhase = ""
        /\ allocResult = "lease"
        /\ ~running
        /\ pc \notin TryPCs
        /\ rc = 0
        /\ (pc = "exited" /\ freeState # "raised") => exitStatus = <<0>>
        /\ (pc = "exited" /\ ~args.keep) => releases = <<ssid>>

\* C15 witness: SIGTERM or SIGHUP arrived during the bootstrap phase, a second
\* signal was dropped during the release, and the process exited with 0.
C15_Witness ==
    /\ pc = "exited"
    /\ sigPhase = "bootstrap"
    /\ started = <<"setup", "bootstrap">>
    /\ sigs = 2
    /\ ignored = 1
    /\ releases = <<"abc">>
    /\ exitStatus = <<0>>

\* C16 (as claimed): when allocate_node ended on an answer whose ssid is the
\* empty string, no phase is ever started and free_session is never called
\* with the empty session id.
C16_EmptySsidNeverValid ==
    (AllocEnded /\ lastAnswer.has_ssid /\ lastAnswer.ssid = "") =>
        /\ started = <<>>
        /\ Count(releases, "") = 0

\* The process ended of its own: exit or uncaught exception, no signal killed it.
Ended == pc = "exited" /\ ~killed

\* C17 (as claimed): with an administrative option on the command line no
\* /Node/get request is ever made and a process that ends of its own ends with
\* status 0; --free-session s makes free_session(s) the only release and never
\* queries the inventory, whatever other options are given; without it,
\* --free-all-nodes releases only listed leases, whether --list-nodes is given
\* or not; --list-nodes alone releases nothing, the finalizer included.
C17_AdminSubCommands ==
    admin # NoAdmin =>
        /\ got = <<>>
        /\ allocResult = "pending"
        /\ Ended => exitStatus = <<0>>
        /\ admin.free_session # NONE =>
              /\ idx = 0
              /\ Ended => releases = <<admin.free_session>>
        /\ (admin.free_session = NONE /\ admin.free_all_nodes) =>
              /\ Len(releases) <= Len(nodes)
              /\ \A i \in DOMAIN releases : releases[i] = nodes[i].ssid
        /\ (admin.free_session = NONE /\ ~admin.free_all_nodes) => releases = <<>>

\* The job is in the finally block or past it.
InOrPastFinally == pc \in FinallyPCs \cup {"sys_exit", "shutdown", "exited"}

\* C18: in a job run with --keep free_session is never called, on no path and
\* not by the finalizer, so the lease the pool handed out is still held when
\* the process is gone; and from the entry of the finally block on the
\* dispositions of SIGTERM and SIGHUP are never changed.
C18_KeepNeverReleases ==
    /\ []((Selected = "job" /\ args.keep) =>
            /\ releases = <<>>
            /\ freeState = "none"
            /\ pc \notin {"fin_ign_term", "fin_ign_hup", "fin_free", "fin_free_wait",
                           "fin_dfl_term", "fin_dfl_hup"}
            /\ (pc = "exited" /\ allocResult = "lease" /\ Granted(lastAnswer))
                  => ssid \in leased)
    /\ [][(Selected = "job" /\ args.keep /\ InOrPastFinally) => disp' = disp]_vars

\* C18 witness: with --keep a signal interrupted a phase and the process has
\* exited: nothing was released, the handlers are still installed.
C18_Witness ==
    /\ args.keep
    /\ pc = "exited"
    /\ allocResult = "lease"
    /\ sigPhase = "setup"
    /\ exitStatus = <<0>>
    /\ releases = <<>>
    /\ \A s \in Signals : disp[s] = "HANDLER"

\* The phases the command line asks for, in the order the claim gives; the
\* cache refresh is the upload of the key followed by the refresh command.
Plan ==
    <<"setup">>
    \o (IF args.ci_pr THEN <<"ci_pr">> ELSE <<>>)
    \o (IF args.vagrant_sync THEN <<"upload", "vagrant_sync">>
        ELSE IF args.vagrant THEN <<"vagrant">>
        ELSE <<"bootstrap", "reboot", "testsuite">>)

\* C19: the phases started so far are always a prefix of the plan, so they
\* start one at a time in the fixed order and none is skipped or repeated; a
\* phase starts only while no phase before it raised, no signal interrupted
\* the job and no other phase is running; and the testsuite starts only after
\* a ping of reboot_node succeeded.
C19_PhaseOrder ==
    /\ [](/\ Len(started) <= Len(Plan)
          /\ started = SubSeq(Plan, 1, Len(started))
          /\ (started # <<>> /\ started[Len(started)] = "testsuite")
                => (ping_rc = 0 /\ probes >= 1))
    /\ [][started' # started =>
            /\ failedPhase = ""
            /\ ~sigexc
            /\ ~running
            /\ allocResult = "lease"
            /\ Len(started') = Len(started) + 1]_vars

\* C19 witness: with --ci-pr and neither Vagrant option the five phases ran in
\* order and the job is in its finally block.
C19_Witness ==
    /\ args.ci_pr
    /\ started = <<"setup", "ci_pr", "bootstrap", "reboot", "testsuite">>
    /\ failedPhase = ""
    /\ pc = "finally"

\* The job is inside an operation on the host: a remote command with its
\* artifact fetch, the upload, or reboot_node with its pings.
OnHost == running \/ pc \in RebootPCs

\* C20: whenever the job is inside an operation on the host, and whenever one
\* begins (a phase or the upload starts, a ping is made), allocate_node has
\* returned the lease, the artifacts directory exists and is the configured
\* storage, and no free_session call has been made; once free_session has been
\* called no such operation is running or begins, and what is left to run are
\* the statements of the finally block, the indexing command among them.
C20_HostUseWithinLease ==
    /\ [](/\ OnHost =>
                /\ allocResult = "lease"
                /\ node = lastAnswer.hosts[1]
                /\ artifacts_dir # UNBOUND
                /\ storage = artifacts_dir
                /\ releases = <<>>
          /\ (Selected = "job" /\ releases # <<>>) =>
                /\ ~OnHost
                /\ InOrPastFinally)
    /\ [][(started' # started \/ probes' # probes \/ (running /\ ~running')) =>
            /\ allocResult = "lease"
            /\ artifacts_dir # UNBOUND
            /\ releases = <<>>
            /\ releases' = <<>>]_vars

\* C20 witness: the testsuite ran on the host, then the lease was released and
\* the indexing command is running.
C20_Witness ==
    /\ pc = "fin_index_run"
    /\ started = <<"setup", "bootstrap", "reboot", "testsuite">>
    /\ releases = <<"abc">>
    /\ node = "host1"
    /\ artifacts_dir # UNBOUND

====
